---- MODULE Spec2Model ----
(***************************************************************************)
(* LiteLLM ClawRouter: the routing logic of src/src/router.js (14          *)
(* dimension scores, weighted tier selection) and the intercepting proxy   *)
(* of src/unnamed/part_000 (startProxy, proxyRequestWithBody,              *)
(* proxyRequest).                                                          *)
(*                                                                         *)
(* Numbers.  Every dimension score is a fraction whose denominator         *)
(* divides 6300 (rule counts 2,3,4,5,7; 900 for the token interpolation;   *)
(* 3 for the question marks), so a score s is held as the integer          *)
(* s * Scale.  Weights are held in hundredths, so the weighted sum w is    *)
(* held as w * Scale * 100.                                                *)
(*                                                                         *)
(* Prompts.  A prompt is the text made of a set of marker units drawn      *)
(* from Vocab (each once, in a fixed order), `pad` copies of the neutral   *)
(* filler token "word", all joined by single spaces, followed by `q`       *)
(* question marks.  Each regular expression of PATTERNS is modelled by     *)
(* the set of units of Vocab it matches in such a text.                    *)
(***************************************************************************)
EXTENDS Integers, Sequences, FiniteSets, TLC

VARIABLES
    boot,         \* the call of startProxy: its options, its progress, its result
    server,       \* the proxy process: "down", "listening" or "crashed"
    reqs,         \* the client requests, by arrival number
    tierModels,   \* the tier map in effect (options.tierModels)
    prompt,       \* router calls: the argument
    rpc,          \* router calls: "init", "scored" or "routed"
    scores,       \* router calls: the value scoreDimensions returned
    decision      \* router calls: the value route returned

rvars == <<prompt, rpc, scores, decision>>

pvars == <<server, reqs>>

bvars == <<boot>>

----------------------------------------------------------------------------
(* Bounds *)

MaxMarks == 4
MaxQ == 4
MaxReqs == 2

(* Token counts of the filler: around both thresholds of the token score. *)
Pads == {0, 1, 2, 48, 498}

----------------------------------------------------------------------------
(* Helpers *)

Undefined == "undefined"

Min(a, b) == IF a < b THEN a ELSE b

Max(a, b) == IF a > b THEN a ELSE b

RECURSIVE SumOver(_, _)
SumOver(S, f) ==
    IF S = {} THEN 0
    ELSE LET x == CHOOSE y \in S : TRUE
         IN f[x] + SumOver(S \ {x}, f)

Scale == 7 * 900

----------------------------------------------------------------------------
(* router.js: tables *)

Tiers == {"SIMPLE", "MEDIUM", "COMPLEX", "REASONING"}

DEFAULT_TIER_MODELS ==
    [SIMPLE |-> "gemini/gemini-2.0-flash",
     MEDIUM |-> "deepseek/deepseek-chat",
     COMPLEX |-> "anthropic/claude-sonnet-4",
     REASONING |-> "deepseek/deepseek-reasoner"]

(* Variant: the code weight raised by a tenth. *)
WEIGHTS_Heavy ==
    [reasoning |-> 20, code |-> 28, simple |-> 10, multiStep |-> 10,
     technical |-> 10, tokenCount |-> 8, creative |-> 5,
     questionComplexity |-> 4, constraints |-> 4, imperative |-> 4,
     outputFormat |-> 3, domain |-> 2, reference |-> 1, negation |-> 1]

(* Weights in hundredths. *)
WEIGHTS ==
    [reasoning |-> 20, code |-> 18, simple |-> 10, multiStep |-> 10,
     technical |-> 10, tokenCount |-> 8, creative |-> 5,
     questionComplexity |-> 4, constraints |-> 4, imperative |-> 4,
     outputFormat |-> 3, domain |-> 2, reference |-> 1, negation |-> 1]

(* The marker units of the modelled prompts.  "zh_prove" stands for the   *)
(* two Chinese characters U+8BC1 U+660E ("prove"); "{json}" for a text    *)
(* holding a JSON object on one line, such as [{"type":"text",...}].      *)
Vocab ==
    {"prove", "theorem", "step by step", "zh_prove", "sqrt(2)", "{json}",
     "function", "<div>", "async", "api", "build", "what is", "translate"}

(* PATTERNS: each regular expression as the set of units it matches. *)
PATTERNS ==
    [reasoning |-> << {"prove", "theorem"}, {"step by step"}, {"zh_prove"},
                      {}, {} >>,
     code |-> << {"function", "async"}, {}, {}, {}, {"sqrt(2)", "{json}"},
                 {"<div>"}, {} >>,
     simple |-> << {"what is", "translate"}, {}, {}, {} >>,
     multiStep |-> << {}, {}, {} >>,
     technical |-> << {}, {"async"}, {"api"}, {} >>,
     creative |-> << {}, {} >>,
     constraints |-> << {}, {}, {} >>,
     imperative |-> << {"build"}, {} >>,
     outputFormat |-> << {}, {} >>,
     domain |-> << {}, {} >>,
     reference |-> << {}, {} >>,
     negation |-> << {}, {} >>]

PatternDims == DOMAIN PATTERNS

(* Whitespace-delimited tokens, UTF-16 code units and UTF-8 bytes of a unit. *)
(* The JSON punctuation holds no whitespace: it joins the neighbouring tokens. *)
UnitTokens == [u \in Vocab |->
    CASE u = "step by step" -> 3 [] u = "what is" -> 2 [] u = "{json}" -> 0
      [] OTHER -> 1]

UnitChars == [u \in Vocab |->
    CASE u = "prove" -> 5 [] u = "theorem" -> 7 [] u = "step by step" -> 12
      [] u = "zh_prove" -> 2 [] u = "sqrt(2)" -> 7 [] u = "{json}" -> 6
      [] u = "function" -> 8 [] u = "<div>" -> 5 [] u = "async" -> 5
      [] u = "api" -> 3 [] u = "build" -> 5 [] u = "what is" -> 7
      [] u = "translate" -> 9]

UnitBytes == [u \in Vocab |-> IF u = "zh_prove" THEN 6 ELSE UnitChars[u]]

(* The prompts the router functions are called with: typed text. *)
Prompts ==
    {[marks |-> m, pad |-> p, q |-> k] :
        m \in {s \in SUBSET (Vocab \ {"{json}"}) : Cardinality(s) <= MaxMarks},
        p \in Pads, k \in 0..MaxQ}

(* pattern.test(prompt) *)
Test(pattern, p) == pattern \cap p.marks # {}

(* prompt.split(/\s+/).length: the empty text splits into one empty token, *)
(* and question marks alone are one token.                                 *)
SplitLength(p) == Max(1, SumOver(p.marks, UnitTokens) + p.pad)

(* (prompt.match(/\?/g) || []).length *)
QuestionMarks(p) == p.q

----------------------------------------------------------------------------
(* router.js: scoreDimensions *)

Matches(patterns, p) ==
    Cardinality({i \in DOMAIN patterns : Test(patterns[i], p)})

PatternScore(dim, p) ==
    Min((Matches(PATTERNS[dim], p) * Scale) \div Len(PATTERNS[dim]), Scale)

(* Variant: the interpolation divided by the width of the interval. *)
TokenScore_Steep(tokenCount) ==
    IF tokenCount < 50 THEN Scale \div 5
    ELSE IF tokenCount > 500 THEN (9 * Scale) \div 10
    ELSE Scale \div 2 + ((tokenCount - 50) * Scale) \div 450

(* Variant: the two thresholds taken inclusively. *)
TokenScore_Inclusive(tokenCount) ==
    IF tokenCount <= 50 THEN Scale \div 5
    ELSE IF tokenCount >= 500 THEN (9 * Scale) \div 10
    ELSE Scale \div 2 + ((tokenCount - 50) * Scale) \div 900

TokenScore(tokenCount) ==
    IF tokenCount < 50 THEN Scale \div 5
    ELSE IF tokenCount > 500 THEN (9 * Scale) \div 10
    ELSE Scale \div 2 + ((tokenCount - 50) * Scale) \div 900

QuestionScore(questionMarks) == Min((questionMarks * Scale) \div 3, Scale)

scoreDimensions(p) ==
    [d \in PatternDims \cup {"tokenCount", "questionComplexity"} |->
        CASE d = "tokenCount" -> TokenScore(SplitLength(p))
          [] d = "questionComplexity" -> QuestionScore(QuestionMarks(p))
          [] OTHER -> PatternScore(d, p)]

----------------------------------------------------------------------------
(* router.js: route *)

(* scores[dim] || 0 *)
ScoreOrZero(s, dim) == IF dim \in DOMAIN s THEN s[dim] ELSE 0

WeightedSum(s) ==
    SumOver(DOMAIN WEIGHTS, [d \in DOMAIN WEIGHTS |-> ScoreOrZero(s, d) * WEIGHTS[d]])

ReasoningMatches(p) == Matches(PATTERNS.reasoning, p)

(* tierModels[tier]: undefined when the map has no such key *)
Lookup(map, tier) == IF tier \in DOMAIN map THEN map[tier] ELSE Undefined

HasStrongCode(s) == s.code * 10 > 3 * Scale \/ s.technical * 10 > 3 * Scale

HasStrongImperative(s) ==
    /\ s.imperative * 10 > 3 * Scale
    /\ (s.code * 10 > Scale \/ s.technical * 10 > Scale)

(* Variant: the MEDIUM test made before the REASONING test. *)
SelectTier_MediumFirst(s, weightedSum, reasoningMatches) ==
    IF weightedSum < 20 * Scale /\ ~HasStrongCode(s) /\ ~HasStrongImperative(s)
    THEN "SIMPLE"
    ELSE IF weightedSum < 40 * Scale /\ ~HasStrongImperative(s)
    THEN "MEDIUM"
    ELSE IF s.reasoning * 2 > Scale \/ reasoningMatches >= 1
    THEN "REASONING"
    ELSE "COMPLEX"

SelectTier(s, weightedSum, reasoningMatches) ==
    IF weightedSum < 20 * Scale /\ ~HasStrongCode(s) /\ ~HasStrongImperative(s)
    THEN "SIMPLE"
    ELSE IF s.reasoning * 2 > Scale \/ reasoningMatches >= 1
    THEN "REASONING"
    ELSE IF weightedSum < 40 * Scale /\ ~HasStrongImperative(s)
    THEN "MEDIUM"
    ELSE "COMPLEX"

(* Variant: the override decided by the reasoning score (> 0.5) instead  *)
(* of the count of matched rules.                                         *)
route_ByScore(p, map) ==
    LET s == scoreDimensions(p)
        weightedSum == WeightedSum(s)
        reasoningMatches == ReasoningMatches(p)
    IN IF s.reasoning * 2 > Scale
       THEN [tier |-> "REASONING",
             model |-> Lookup(map, "REASONING"),
             confidence |-> [kind |-> "fixed", val |-> 97],
             method |-> "rules",
             scores |-> s]
       ELSE LET tier == SelectTier(s, weightedSum, reasoningMatches)
            IN [tier |-> tier,
                model |-> Lookup(map, tier),
                confidence |-> [kind |-> "sigmoid", val |-> weightedSum],
                weightedScore |-> weightedSum,
                method |-> "weighted",
                scores |-> s]

(* The confidence is either the fixed 0.97 of the rules method or the     *)
(* logistic function of the weighted sum, held by its argument.           *)
route(p, map) ==
    LET s == scoreDimensions(p)
        weightedSum == WeightedSum(s)
        reasoningMatches == ReasoningMatches(p)
    IN IF reasoningMatches >= 2
       THEN [tier |-> "REASONING",
             model |-> Lookup(map, "REASONING"),
             confidence |-> [kind |-> "fixed", val |-> 97],
             method |-> "rules",
             scores |-> s]
       ELSE LET tier == SelectTier(s, weightedSum, reasoningMatches)
            IN [tier |-> tier,
                model |-> Lookup(map, tier),
                confidence |-> [kind |-> "sigmoid", val |-> weightedSum],
                weightedScore |-> weightedSum,
                method |-> "weighted",
                scores |-> s]

----------------------------------------------------------------------------
(* The tier maps a caller can pass: the default, a complete override (the *)
(* one of test.js) and an override that lacks keys.                       *)

CustomTiers ==
    [SIMPLE |-> "openai/gpt-4o-mini",
     MEDIUM |-> "openai/gpt-4o",
     COMPLEX |-> "anthropic/claude-opus-4",
     REASONING |-> "openai/o1"]

PartialTiers == [SIMPLE |-> "openai/gpt-4o-mini"]

TierMaps == {DEFAULT_TIER_MODELS, CustomTiers, PartialTiers}

----------------------------------------------------------------------------
(* router.js: estimateCost, estimateSavings.  Rates are held in cents per *)
(* million tokens, so a cost is held in units of 10^-8 dollars; a saving  *)
(* is held as the fraction num/den.                                       *)

MODEL_COSTS ==
    [m \in {"gemini/gemini-2.0-flash", "deepseek/deepseek-chat",
            "anthropic/claude-sonnet-4", "deepseek/deepseek-reasoner",
            "openai/gpt-4o-mini", "openai/gpt-4o", "anthropic/claude-opus-4"} |->
        CASE m = "gemini/gemini-2.0-flash" -> [input |-> 10, output |-> 40]
          [] m = "deepseek/deepseek-chat" -> [input |-> 14, output |-> 28]
          [] m = "anthropic/claude-sonnet-4" -> [input |-> 300, output |-> 1500]
          [] m = "deepseek/deepseek-reasoner" -> [input |-> 55, output |-> 219]
          [] m = "openai/gpt-4o-mini" -> [input |-> 15, output |-> 60]
          [] m = "openai/gpt-4o" -> [input |-> 250, output |-> 1000]
          [] m = "anthropic/claude-opus-4" -> [input |-> 1500, output |-> 7500]]

(* MODEL_COSTS[model] || { input: 1.00, output: 5.00 } *)
CostsOf(model) ==
    IF model \in DOMAIN MODEL_COSTS THEN MODEL_COSTS[model]
    ELSE [input |-> 100, output |-> 500]

estimateCost(model, inputTokens, outputTokens) ==
    inputTokens * CostsOf(model).input + outputTokens * CostsOf(model).output

(* Variant: a negative saving is reported as none. *)
estimateSavings_Clamped(routedModel, baselineModel, inputTokens, outputTokens) ==
    LET routedCost == estimateCost(routedModel, inputTokens, outputTokens)
        baselineCost == estimateCost(baselineModel, inputTokens, outputTokens)
    IN IF baselineCost > 0 /\ baselineCost > routedCost
       THEN [num |-> baselineCost - routedCost, den |-> baselineCost]
       ELSE [num |-> 0, den |-> 1]

estimateSavings(routedModel, baselineModel, inputTokens, outputTokens) ==
    LET routedCost == estimateCost(routedModel, inputTokens, outputTokens)
        baselineCost == estimateCost(baselineModel, inputTokens, outputTokens)
    IN IF baselineCost > 0
       THEN [num |-> baselineCost - routedCost, den |-> baselineCost]
       ELSE [num |-> 0, den |-> 1]

(* estimateSavings(model) with its default arguments *)
DefaultSavings(routedModel) ==
    estimateSavings(routedModel, "anthropic/claude-opus-4", 1000, 500)

----------------------------------------------------------------------------
(* JSON bodies.  A body is the text of a JSON value in one of three       *)
(* writings: "compact" (exactly what JSON.stringify prints), "spaced" (a  *)
(* space after each top-level colon and comma) and "garbage" (no JSON);   *)
(* "empty" is the body of a request without one.                          *)

EmptyPrompt == [marks |-> {}, pad |-> 0, q |-> 0]

Text(p) == [kind |-> "string", text |-> p]

Parts(p) == [kind |-> "parts", text |-> p]

NoContent == [kind |-> "absent", text |-> EmptyPrompt]

Msg(c) == [kind |-> "object", content |-> c]

(* A character of a string used as a message: it has no content. *)
CharMsg == [kind |-> "char", content |-> NoContent]

List(items) == [kind |-> "list", items |-> items]

NoMessages == [kind |-> "absent", items |-> <<>>]

(* messages: "hi" *)
StringMessages == [kind |-> "string", items |-> <<>>]

Object(model, messages) ==
    [kind |-> "object", model |-> model, messages |-> messages]

JsonNull == [kind |-> "null", model |-> Undefined, messages |-> NoMessages]

JsonNumber == [kind |-> "number", model |-> Undefined, messages |-> NoMessages]

Compact(v) == [fmt |-> "compact", val |-> v]

Spaced(v) == [fmt |-> "spaced", val |-> v]

Garbage == [fmt |-> "garbage", val |-> JsonNull]

EmptyBody == [fmt |-> "empty", val |-> JsonNull]

(* Length of a prompt's text in the units L gives (UnitChars, UnitBytes). *)
PromptLen(p, L) ==
    LET n == Cardinality(p.marks) + p.pad
    IN SumOver(p.marks, L) + 4 * p.pad + (IF n > 0 THEN n - 1 ELSE 0) + p.q

ContentLen(c, L) ==
    CASE c.kind = "string" -> 2 + PromptLen(c.text, L)
      [] c.kind = "parts" -> 27 + PromptLen(c.text, L)
      [] OTHER -> 0

MessageLen(m, L) ==
    IF m.kind = "null" THEN 4
    ELSE 15 + (IF m.content.kind = "absent" THEN 0
               ELSE 11 + ContentLen(m.content, L))

RECURSIVE ItemsLen(_, _)
ItemsLen(items, L) ==
    IF items = <<>> THEN 0
    ELSE MessageLen(Head(items), L) + ItemsLen(Tail(items), L)
         + (IF Len(items) > 1 THEN 1 ELSE 0)

MessagesLen(ms, L) ==
    CASE ms.kind = "list" -> 2 + ItemsLen(ms.items, L)
      [] ms.kind = "string" -> 4
      [] OTHER -> 0

FieldCount(v) ==
    (IF v.model # Undefined THEN 1 ELSE 0)
    + (IF v.messages.kind # "absent" THEN 1 ELSE 0)

ValueLen(v, L) ==
    CASE v.kind = "null" -> 4
      [] v.kind = "number" -> 1
      [] OTHER ->
           2 + (IF v.model # Undefined THEN 10 + Len(v.model) ELSE 0)
             + (IF v.messages.kind # "absent"
                THEN 11 + MessagesLen(v.messages, L) ELSE 0)
             + (IF FieldCount(v) > 1 THEN FieldCount(v) - 1 ELSE 0)

BodyLen(b, L) ==
    CASE b.fmt = "empty" -> 0
      [] b.fmt = "garbage" -> 9
      [] b.fmt = "compact" -> ValueLen(b.val, L)
      [] OTHER ->
           ValueLen(b.val, L)
             + (IF b.val.kind = "object" /\ FieldCount(b.val) > 0
                THEN 2 * FieldCount(b.val) - 1 ELSE 0)

(* Buffer.byteLength(body) and body.length *)
ByteLength(b) == BodyLen(b, UnitBytes)

StringLength(b) == BodyLen(b, UnitChars)

(* JSON.parse: throws on a text that is no JSON *)
ParseThrows(b) == b.fmt \in {"garbage", "empty"}

JSONparse(b) == b.val

(* JSON.stringify of a payload: the compact writing; a property whose     *)
(* value is undefined is left out, which the value already expresses.     *)
JSONstringify(v) == Compact(v)

(* JSON.stringify(content) of a structured content: the prompt's text     *)
(* inside the punctuation of a one-line JSON object.                      *)
StringifyContent(p) == [p EXCEPT !.marks = @ \cup {"{json}"}]

----------------------------------------------------------------------------
(* The requests clients send *)

(* A request target (req.url): its path and its query string. *)
Url(path, query) == [path |-> path, query |-> query]

HealthUrl == Url("/health", "")

HealthProbeUrl == Url("/health", "probe=1")

CompletionsUrl == Url("/v1/chat/completions", "")

ModelsUrl == Url("/v1/models", "")

(* A target whose query string, not its path, names the completions path *)
ModelsRefUrl == Url("/v1/models", "ref=/chat/completions")

NoUrl == Url("", "")

Urls == {HealthUrl, HealthProbeUrl, CompletionsUrl, ModelsUrl, ModelsRefUrl}

(* req.url === '/health' *)
IsHealthUrl(url) == url.path = "/health" /\ url.query = ""

(* req.url.includes('/chat/completions'): a substring test on the whole   *)
(* target, by the texts of the modelled targets that hold the substring.  *)
IncludesCompletions(url) ==
    LET holding == {"/v1/chat/completions", "ref=/chat/completions"}
    IN url.path \in holding \/ url.query \in holding

Translate == [marks |-> {"translate"}, pad |-> 3, q |-> 0]

ProveStepByStep == [marks |-> {"prove", "step by step"}, pad |-> 4, q |-> 0]

ZhProve == [marks |-> {"zh_prove", "step by step"}, pad |-> 0, q |-> 0]

(* A prompt of more than 100 characters *)
BuildApiLong == [marks |-> {"build", "api"}, pad |-> 48, q |-> 1]

AutoTranslate == Object("auto", List(<<Msg(Text(Translate))>>))

Gpt4oTranslate == Object("gpt-4o", List(<<Msg(Text(Translate))>>))

CompletionBodies ==
    {Compact(AutoTranslate), Spaced(AutoTranslate),
     Compact(Gpt4oTranslate), Spaced(Gpt4oTranslate),
     Garbage,
     Compact(Object("litellm/auto",
                    List(<<Msg(Text(ProveStepByStep)), Msg(Text(Translate))>>))),
     Compact(Object("litellm-clawrouter/auto", List(<<Msg(Parts(ZhProve))>>))),
     Compact(Object("auto", List(<<Msg(Text(BuildApiLong))>>))),
     Compact(Object("auto", List(<<>>))),
     Compact(Object("auto", NoMessages)),
     Compact(Object("auto", List(<<Msg(NoContent)>>))),
     Compact(Object("auto", StringMessages)),
     Compact(JsonNull),
     Compact(JsonNumber)}

ProxyHost == "localhost:8401"

UpstreamHost == "litellm:4000"

ApiKey == "sk-upstream"

ClientHeaders(body) ==
    [host |-> ProxyHost,
     authorization |-> "Bearer sk-client",
     contentLength |-> ByteLength(body),
     accept |-> "application/json"]

ClientRequest(method, url, body) ==
    [method |-> method, url |-> url, body |-> body,
     headers |-> ClientHeaders(body)]

ClientRequests ==
    {ClientRequest("GET", u, EmptyBody) : u \in Urls}
    \cup {ClientRequest("POST", u, Spaced(AutoTranslate)) :
             u \in {HealthUrl, ModelsUrl}}
    \cup {ClientRequest("POST", ModelsRefUrl, b) :
             b \in {Compact(AutoTranslate), Garbage}}
    \cup {ClientRequest("POST", CompletionsUrl, b) : b \in CompletionBodies}

(* The requests sent concurrently: one of each way through the handler. *)
ConcurrentRequests ==
    {ClientRequest("GET", HealthUrl, EmptyBody),
     ClientRequest("GET", HealthProbeUrl, EmptyBody),
     ClientRequest("POST", CompletionsUrl, Compact(AutoTranslate)),
     ClientRequest("POST", CompletionsUrl, Spaced(Gpt4oTranslate)),
     ClientRequest("POST", CompletionsUrl, Garbage)}

NoRequest == ClientRequest("NONE", NoUrl, EmptyBody)

NoForward ==
    [sent |-> FALSE, method |-> "NONE", url |-> NoUrl, body |-> EmptyBody,
     headers |-> ClientHeaders(EmptyBody)]

NoResponse == [heads |-> 0, status |-> 0, body |-> [none |-> ""]]

(* A request: where it stands ("idle" not yet sent, "recv" body being     *)
(* buffered, "up" forwarded and waiting for the upstream, "relaying" the  *)
(* upstream's head relayed and its body being piped, "done" response      *)
(* ended, "hung" handler over without a response), what the client sent,  *)
(* how many chunks of the body have been delivered and the text buffered  *)
(* from them, what onRouted was when the handler ran and the calls the    *)
(* handler made (onRouted, console.log, the forward) in their order, what *)
(* was forwarded, what the client got, whether its upstream connection    *)
(* failed.                                                                *)
IdleRequest ==
    [st |-> "idle", in |-> NoRequest, got |-> 0, buf |-> <<>>,
     onRouted |-> "none", log |-> <<>>,
     fwd |-> NoForward, resp |-> NoResponse, uperr |-> FALSE]

(* The chunks a client sends a body in: two for a body that is not empty. *)
Chunks(body) ==
    IF body.fmt = "empty" THEN <<>>
    ELSE <<[of |-> body, part |-> 1], [of |-> body, part |-> 2]>>

(* The text made of the chunks buffered: the body they are the chunks of, *)
(* or a text that is no JSON when they are not the chunks of one body.    *)
Concat(buf) ==
    IF buf = <<>> THEN EmptyBody
    ELSE IF buf = Chunks(buf[1].of) THEN buf[1].of
    ELSE Garbage

----------------------------------------------------------------------------
(* part_000: proxyRequestWithBody, proxyRequest and their callbacks *)

UpstreamHeaders(headers) ==
    [headers EXCEPT !.host = UpstreamHost,
                    !.authorization = "Bearer " \o ApiKey]

(* Variant: content-length taken as body.length (UTF-16 code units). *)
proxyRequestWithBody_CharLength(req, body) ==
    [req EXCEPT
        !.st = "up",
        !.fwd = [sent |-> TRUE, method |-> req.in.method, url |-> req.in.url,
                 body |-> body,
                 headers |-> [UpstreamHeaders(req.in.headers) EXCEPT
                                 !.contentLength = StringLength(body)]]]

proxyRequestWithBody(req, body) ==
    [req EXCEPT
        !.st = "up",
        !.fwd = [sent |-> TRUE, method |-> req.in.method, url |-> req.in.url,
                 body |-> body,
                 headers |-> [UpstreamHeaders(req.in.headers) EXCEPT
                                 !.contentLength = ByteLength(body)]]]

proxyRequest(req) ==
    [req EXCEPT
        !.st = "up",
        !.fwd = [sent |-> TRUE, method |-> req.in.method, url |-> req.in.url,
                 body |-> req.in.body,
                 headers |-> UpstreamHeaders(req.in.headers)]]

(* res.writeHead(status); res.end(body) *)
Respond(req, status, body) ==
    [req EXCEPT !.st = "done",
                !.resp = [heads |-> @.heads + 1, status |-> status, body |-> body]]

(* The response callback: clientRes.writeHead(proxyRes.statusCode, ...);  *)
(* proxyRes.pipe(clientRes)                                               *)
OnProxyResponse(req, status) ==
    [req EXCEPT !.st = "relaying",
                !.resp = [heads |-> @.heads + 1, status |-> status,
                          body |-> [upstream |-> "stream"]]]

BadGateway(details) == [error |-> "Bad gateway", details |-> details]

(* The 'error' callback of the upstream request.  writeHead throws        *)
(* ERR_HTTP_HEADERS_SENT once the upstream's head has been relayed: the   *)
(* exception leaves the event handler uncaught and ends the process.      *)
OnProxyError(req, details) ==
    IF req.resp.heads = 0
    THEN [req |-> [Respond(req, 502, BadGateway(details)) EXCEPT !.uperr = TRUE],
          crashed |-> FALSE]
    ELSE [req |-> [req EXCEPT !.uperr = TRUE], crashed |-> TRUE]

----------------------------------------------------------------------------
(* part_000: startProxy, the request handler *)

IsAutoRoute(originalModel) ==
    \/ originalModel = "auto"
    \/ originalModel = "litellm/auto"
    \/ originalModel = "litellm-clawrouter/auto"

(* Variant: the messages are not looked at. *)
HasMessages_Always(payload) == TRUE

(* payload.messages?.length > 0 *)
HasMessages(payload) ==
    \/ payload.messages.kind = "list" /\ Len(payload.messages.items) > 0
    \/ payload.messages.kind = "string"

(* A message that is null or undefined: reading its content throws. *)
NullMsg == [kind |-> "null", content |-> NoContent]

(* payload.messages[payload.messages.length - 1]: an item of the list, a  *)
(* character of a string, undefined for an empty list; no messages at all *)
(* makes the indexing itself throw.                                       *)
LastMessage(payload) ==
    IF payload.messages.kind = "list" /\ Len(payload.messages.items) > 0
    THEN payload.messages.items[Len(payload.messages.items)]
    ELSE IF payload.messages.kind = "string"
    THEN CharMsg
    ELSE NullMsg

(* lastMessage.content throws on null; a message without content gives    *)
(* JSON.stringify(undefined), which is undefined, and route throws on it  *)
(* (prompt.toLowerCase()).                                                *)
ClassifyThrows(payload) ==
    \/ LastMessage(payload).kind = "null"
    \/ LastMessage(payload).content.kind = "absent"

PromptOf(lastMessage) ==
    IF lastMessage.content.kind = "string"
    THEN lastMessage.content.text
    ELSE StringifyContent(lastMessage.content.text)

HealthBody == [status |-> "ok", version |-> "1.0.0"]

ErrorBody(message) == [error |-> message]

(* The catch block.  When onError throws, the async handler's promise is  *)
(* rejected with nobody to handle it: the process ends or only warns,     *)
(* depending on the runtime (`unhandled`); no response is written.        *)
Caught(req, message, errorHook, unhandled) ==
    IF errorHook = "throws"
    THEN [req |-> [req EXCEPT !.st = "hung"], crashed |-> unhandled = "crash"]
    ELSE [req |-> Respond(req, 500, ErrorBody(message)), crashed |-> FALSE]

Call(req, ev, arg) == [req EXCEPT !.log = Append(@, [ev |-> ev, arg |-> arg])]

Forwarded(req, newBody) ==
    [req |-> proxyRequestWithBody(Call(req, "forward", [body |-> newBody]),
                                  newBody),
     crashed |-> FALSE]

(* The length of the classified prompt in UTF-16 code units *)
PromptChars(lastMessage) ==
    IF lastMessage.content.kind = "string"
    THEN PromptLen(lastMessage.content.text, UnitChars)
    ELSE ContentLen(lastMessage.content, UnitChars)

(* Variant: the preview is the whole prompt. *)
PromptPreview_Whole(p, chars) == [text |-> p, chars |-> chars]

(* prompt.slice(0, 100): the prompt's text, cut after `chars` code units *)
PromptPreview(p, chars) == [text |-> p, chars |-> Min(chars, 100)]

(* The argument of onRouted *)
RoutedSummary(originalModel, d, p, chars) ==
    [originalModel |-> originalModel,
     routedModel |-> d.model,
     tier |-> d.tier,
     confidence |-> d.confidence,
     savings |-> DefaultSavings(d.model),
     promptPreview |-> PromptPreview(p, chars)]

(* The 'end' callback of a completions POST, once the body has parsed.    *)
(* routedHook and errorHook say what onRouted and onError do at this      *)
(* call: "absent", "returns" or "throws".                                 *)
OnParsed(req, payload, map, routedHook, errorHook, unhandled) ==
    IF payload.kind = "null"
    THEN Caught(req, "TypeError", errorHook, unhandled)
    ELSE IF IsAutoRoute(payload.model) /\ HasMessages(payload)
    THEN IF ClassifyThrows(payload)
         THEN Caught(req, "TypeError", errorHook, unhandled)
         ELSE LET last == LastMessage(payload)
                  p == PromptOf(last)
                  d == route(p, map)
                  routed == [payload EXCEPT !.model = d.model]
                  summary == RoutedSummary(payload.model, d, p, PromptChars(last))
                  entered == [req EXCEPT !.onRouted = routedHook]
                  called == IF routedHook = "absent" THEN entered
                            ELSE Call(entered, "onRouted", summary)
              IN IF routedHook = "throws"
                 THEN Caught(called, "HookError", errorHook, unhandled)
                 ELSE Forwarded(Call(called, "console.log",
                                     [tier |-> d.tier, model |-> d.model]),
                                JSONstringify(routed))
    ELSE Forwarded(req, JSONstringify(payload))

(* Variant: a body that does not parse is forwarded as received. *)
OnRequestEnd_ForwardUnparsed(req, map, routedHook, errorHook, unhandled) ==
    IF ParseThrows(Concat(req.buf))
    THEN Forwarded(req, Concat(req.buf))
    ELSE OnParsed(req, JSONparse(Concat(req.buf)), map, routedHook, errorHook,
                  unhandled)

(* The 'end' callback of a completions POST *)
OnRequestEnd(req, map, routedHook, errorHook, unhandled) ==
    IF ParseThrows(Concat(req.buf))
    THEN Caught(req, "SyntaxError", errorHook, unhandled)
    ELSE OnParsed(req, JSONparse(Concat(req.buf)), map, routedHook, errorHook,
                  unhandled)

(* Variant: one buffer for all the requests whose body is being received. *)
OnData_Shared(rs, r, chunk) ==
    [k \in DOMAIN rs |->
        IF rs[k].st = "recv"
        THEN [rs[k] EXCEPT !.buf = Append(@, chunk),
                           !.got = IF k = r THEN @ + 1 ELSE @]
        ELSE rs[k]]

(* req.on('data', chunk => body += chunk): the buffer of this request *)
OnData(rs, r, chunk) ==
    [rs EXCEPT ![r].buf = Append(@, chunk), ![r].got = @ + 1]

(* The createServer callback *)
OnRequest(req) ==
    IF IsHealthUrl(req.in.url)
    THEN Respond(req, 200, HealthBody)
    ELSE IF req.in.method # "POST" \/ ~IncludesCompletions(req.in.url)
    THEN proxyRequest(req)
    ELSE [req EXCEPT !.st = "recv"]

----------------------------------------------------------------------------
(* part_000: startProxy, the start of the server *)

DEFAULT_PORT == 8401

Ports == {DEFAULT_PORT, 9000}

BaseUrl == "http://" \o UpstreamHost

(* The options of a call: a missing or empty base URL or key, a port, and *)
(* what onReady does ("absent", "returns", "throws").                     *)
StartOptions ==
    [litellmBaseUrl : {Undefined, "", BaseUrl},
     litellmApiKey : {Undefined, "", ApiKey},
     port : Ports,
     onReady : {"absent", "returns", "throws"}]

ValidOptions ==
    [litellmBaseUrl |-> BaseUrl, litellmApiKey |-> ApiKey,
     port |-> DEFAULT_PORT, onReady |-> "absent"]

(* !value *)
Falsy(value) == value \in {Undefined, ""}

NoHandle == [none |-> TRUE]

NoError == [none |-> TRUE]

(* The call of startProxy: "new" not yet called, "binding" listen called, *)
(* "probing" health probe of the occupied port under way, "stalled" the   *)
(* probe's response has begun and will never end, "resolved",             *)
(* "rejected"; the calls of server.listen and of http.get made so far,    *)
(* the error of listen, the answer of the probe, the calls of onReady;    *)
(* the call of the handle's close(): "no" not called, "pending",          *)
(* "resolved", and the requests accepted and those still in flight when   *)
(* it was called.                                                         *)
NotStarted ==
    [phase |-> "new", opts |-> ValidOptions, listens |-> 0, probes |-> 0,
     bindError |-> "none", probe |-> "none", ready |-> 0,
     handle |-> NoHandle, error |-> NoError,
     closed |-> "no", acceptedAtClose |-> 0, inFlightAtClose |-> 0]

Reject(b, message, port) ==
    [b EXCEPT !.phase = "rejected",
              !.error = [message |-> message, port |-> port]]

PortInUse(b) ==
    Reject(b, "Port is in use by another service", b.opts.port)

(* Variant: the API key is not checked. *)
startProxy_KeyUnchecked(options) ==
    LET b == [NotStarted EXCEPT !.opts = options]
    IN IF Falsy(options.litellmBaseUrl)
       THEN Reject(b, "litellmBaseUrl is required", Undefined)
       ELSE [b EXCEPT !.phase = "binding", !.listens = @ + 1]

(* The body of startProxy up to server.listen(port, ...) *)
startProxy(options) ==
    LET b == [NotStarted EXCEPT !.opts = options]
    IN IF Falsy(options.litellmBaseUrl)
       THEN Reject(b, "litellmBaseUrl is required", Undefined)
       ELSE IF Falsy(options.litellmApiKey)
       THEN Reject(b, "litellmApiKey is required", Undefined)
       ELSE [b EXCEPT !.phase = "binding", !.listens = @ + 1]

(* The callback of server.listen: onReady, then resolve.  An exception of *)
(* onReady leaves the callback uncaught: the process ends before resolve. *)
OnListening(b) ==
    IF b.opts.onReady = "throws"
    THEN [boot |-> [b EXCEPT !.ready = @ + 1], server |-> "crashed"]
    ELSE [boot |-> [b EXCEPT
                       !.phase = "resolved",
                       !.ready = IF b.opts.onReady = "absent" THEN @ ELSE @ + 1,
                       !.handle = [port |-> b.opts.port, reused |-> FALSE,
                                   close |-> "server.close"]],
          server |-> "listening"]

(* server.on('error'): the probe of an occupied port, or the rejection *)
OnServerError(b, code) ==
    IF code = "EADDRINUSE"
    THEN [b EXCEPT !.phase = "probing", !.bindError = code, !.probes = @ + 1]
    ELSE [Reject(b, code, Undefined) EXCEPT !.bindError = code]

(* What the occupant of the port answers to GET /health *)
ProbeAnswers == {"{status:ok}", "{status:down}", "{}", "null", "<html>"}

(* JSON.parse(data).status === 'ok'; a text that is no JSON and a null    *)
(* both throw inside the try block.                                       *)
ReportsOk(data) == data = "{status:ok}"

(* Variant: every answer that parses as a JSON object is taken as healthy. *)
OnProbeEnd_AnyObject(b, data) ==
    IF data \in {"{status:ok}", "{status:down}", "{}"}
    THEN [b EXCEPT !.phase = "resolved", !.probe = data,
                   !.handle = [port |-> b.opts.port, reused |-> TRUE,
                               close |-> "noop"]]
    ELSE [PortInUse(b) EXCEPT !.probe = data]

(* healthRes.on('end') *)
OnProbeEnd(b, data) ==
    IF ReportsOk(data)
    THEN [b EXCEPT !.phase = "resolved", !.probe = data,
                   !.handle = [port |-> b.opts.port, reused |-> TRUE,
                               close |-> "noop"]]
    ELSE [PortInUse(b) EXCEPT !.probe = data]

(* http.get(...).on('error') *)
OnProbeError(b) == [PortInUse(b) EXCEPT !.probe = "error"]

(* The callback of http.get: the response of the occupant has begun; its  *)
(* text is collected and the promise is settled by 'end' alone.  Neither  *)
(* the probe nor its response has a timeout, so when the occupant never   *)
(* ends its response the call waits for good.                             *)
OnProbeResponse(b) == [b EXCEPT !.phase = "stalled"]

(* The requests accepted so far, and those whose connection is still open *)
Accepted(rs) == Cardinality({r \in DOMAIN rs : rs[r].st # "idle"})

InFlight(rs) == Cardinality({r \in DOMAIN rs : rs[r].st \notin {"idle", "done"}})

(* Variant: close() resolves at once, without waiting for server.close. *)
OnClose_NoWait(b, srv, rs) ==
    [boot |-> [b EXCEPT !.closed = "resolved",
                        !.acceptedAtClose = Accepted(rs),
                        !.inFlightAtClose = InFlight(rs)],
     server |-> IF b.handle.close = "noop" THEN srv ELSE "closing"]

(* handle.close(): Promise.resolve() of a reused handle, or               *)
(* new Promise(r => server.close(r)), which stops the server accepting    *)
(* connections and calls r once every connection has ended.               *)
OnClose(b, srv, rs) ==
    IF b.handle.close = "noop"
    THEN [boot |-> [b EXCEPT !.closed = "resolved"], server |-> srv]
    ELSE [boot |-> [b EXCEPT !.closed = "pending",
                             !.acceptedAtClose = Accepted(rs),
                             !.inFlightAtClose = InFlight(rs)],
          server |-> "closing"]

(* The callback of server.close *)
OnClosed(b) == [b EXCEPT !.closed = "resolved"]

(* startProxy has resolved with a listener of its own. *)
Started ==
    [NotStarted EXCEPT
        !.phase = "resolved", !.listens = 1,
        !.handle = [port |-> DEFAULT_PORT, reused |-> FALSE,
                    close |-> "server.close"]]

----------------------------------------------------------------------------
(* The proxy as a state machine *)

Reqs == 1..MaxReqs

NoScores == [d \in {} |-> 0]

NoDecision == [tier |-> "NONE"]

HookOutcomes == {"absent", "returns", "throws"}

UpstreamStatuses == {200, 429}

Crash(crashed) == IF crashed THEN "crashed" ELSE server

(* The process runs and handles the events of the connections it has. *)
Serving == server \in {"listening", "closing"}

Init ==
    /\ boot = Started
    /\ server = "listening"
    /\ reqs = [r \in Reqs |-> IdleRequest]
    /\ tierModels \in TierMaps
    /\ prompt = EmptyPrompt
    /\ rpc = "idle"
    /\ scores = NoScores
    /\ decision = NoDecision

(* A client's request arrives. *)
Arrive(r, in) ==
    /\ server = "listening"
    /\ reqs[r].st = "idle"
    /\ \A k \in Reqs : k < r => reqs[k].st # "idle"
    /\ reqs' = [reqs EXCEPT ![r] = OnRequest([@ EXCEPT !.in = in])]
    /\ UNCHANGED <<boot, server, tierModels, rvars>>

(* A chunk of the body of a completions POST arrives. *)
Data(r) ==
    /\ Serving
    /\ reqs[r].st = "recv"
    /\ reqs[r].got < Len(Chunks(reqs[r].in.body))
    /\ reqs' = OnData(reqs, r, Chunks(reqs[r].in.body)[reqs[r].got + 1])
    /\ UNCHANGED <<boot, server, tierModels, rvars>>

(* The body of a completions POST has been received in full. *)
RequestEnd(r, routedHook, errorHook, unhandled) ==
    /\ Serving
    /\ reqs[r].st = "recv"
    /\ reqs[r].got = Len(Chunks(reqs[r].in.body))
    /\ LET o == OnRequestEnd(reqs[r], tierModels, routedHook, errorHook, unhandled)
       IN /\ reqs' = [reqs EXCEPT ![r] = o.req]
          /\ server' = Crash(o.crashed)
    /\ UNCHANGED <<boot, tierModels, rvars>>

(* The upstream answers with a status line and headers. *)
UpstreamResponse(r, status) ==
    /\ Serving
    /\ reqs[r].st = "up"
    /\ reqs' = [reqs EXCEPT ![r] = OnProxyResponse(@, status)]
    /\ UNCHANGED <<boot, server, tierModels, rvars>>

(* The upstream's body ends: the pipe ends the client's response. *)
UpstreamEnd(r) ==
    /\ Serving
    /\ reqs[r].st = "relaying"
    /\ reqs' = [reqs EXCEPT ![r].st = "done"]
    /\ UNCHANGED <<boot, server, tierModels, rvars>>

(* The upstream connection fails (refused, reset, timed out), before or   *)
(* after the upstream's head.                                             *)
UpstreamError(r, details) ==
    /\ Serving
    /\ reqs[r].st \in {"up", "relaying"}
    /\ LET o == OnProxyError(reqs[r], details)
       IN /\ reqs' = [reqs EXCEPT ![r] = o.req]
          /\ server' = Crash(o.crashed)
    /\ UNCHANGED <<boot, tierModels, rvars>>

(* What onRouted and onError do at a call, and what the runtime does with *)
(* an unhandled rejection.                                                *)
HookCases == HookOutcomes \X HookOutcomes \X {"crash", "warn"}

(* Concurrent requests; their upstream, when it answers, answers 200. *)
Next ==
    \/ \E r \in Reqs, in \in ConcurrentRequests : Arrive(r, in)
    \/ \E r \in Reqs : Data(r)
    \/ \E r \in Reqs, h \in HookCases : RequestEnd(r, h[1], h[2], h[3])
    \/ \E r \in Reqs : UpstreamResponse(r, 200)
    \/ \E r \in Reqs : UpstreamEnd(r)
    \/ \E r \in Reqs : UpstreamError(r, "ECONNRESET")

(* One request, of every kind *)
RequestNext ==
    \/ \E in \in ClientRequests : Arrive(1, in)
    \/ Data(1)
    \/ \E h \in HookCases : RequestEnd(1, h[1], h[2], h[3])
    \/ \E s \in UpstreamStatuses : UpstreamResponse(1, s)
    \/ UpstreamEnd(1)
    \/ UpstreamError(1, "ECONNRESET")

----------------------------------------------------------------------------
(* The start of the server, followed by one request *)

StartInit ==
    /\ boot = NotStarted
    /\ server = "down"
    /\ reqs = [r \in Reqs |-> IdleRequest]
    /\ tierModels \in TierMaps
    /\ prompt = EmptyPrompt
    /\ rpc = "idle"
    /\ scores = NoScores
    /\ decision = NoDecision

CallStartProxy(options) ==
    /\ boot.phase = "new"
    /\ boot' = startProxy(options)
    /\ UNCHANGED <<pvars, tierModels, rvars>>

(* The port is bound: the callback of listen runs. *)
Listening ==
    /\ boot.phase = "binding"
    /\ server = "down"
    /\ LET o == OnListening(boot)
       IN boot' = o.boot /\ server' = o.server
    /\ UNCHANGED <<reqs, tierModels, rvars>>

(* The bind fails: the server emits 'error'. *)
ServerError(code) ==
    /\ boot.phase = "binding"
    /\ server = "down"
    /\ boot' = OnServerError(boot, code)
    /\ UNCHANGED <<pvars, tierModels, rvars>>

(* The occupant of the port answers the probe in full. *)
ProbeEnd(data) ==
    /\ boot.phase = "probing"
    /\ boot' = OnProbeEnd(boot, data)
    /\ UNCHANGED <<pvars, tierModels, rvars>>

(* The probe's connection fails. *)
ProbeError ==
    /\ boot.phase = "probing"
    /\ boot' = OnProbeError(boot)
    /\ UNCHANGED <<pvars, tierModels, rvars>>

(* The occupant accepts the probe, begins a response and never ends it. *)
ProbeStall ==
    /\ boot.phase = "probing"
    /\ boot' = OnProbeResponse(boot)
    /\ UNCHANGED <<pvars, tierModels, rvars>>

(* The caller closes the handle it was given. *)
Close ==
    /\ boot.phase = "resolved"
    /\ boot.closed = "no"
    /\ server \in {"listening", "down"}
    /\ LET o == OnClose(boot, server, reqs)
       IN boot' = o.boot /\ server' = o.server
    /\ UNCHANGED <<reqs, tierModels, rvars>>

(* The last connection of a closing server has ended. *)
Released ==
    /\ server = "closing"
    /\ InFlight(reqs) = 0
    /\ boot' = OnClosed(boot)
    /\ server' = "closed"
    /\ UNCHANGED <<reqs, tierModels, rvars>>

StartNext ==
    \/ \E options \in StartOptions : CallStartProxy(options)
    \/ Listening
    \/ \E code \in {"EADDRINUSE", "EACCES"} : ServerError(code)
    \/ \E data \in ProbeAnswers : ProbeEnd(data)
    \/ ProbeError
    \/ ProbeStall
    \/ Close
    \/ Released
    \/ \E in \in ConcurrentRequests : Arrive(1, in)
    \/ Data(1)
    \/ \E h \in HookCases : RequestEnd(1, h[1], h[2], h[3])
    \/ \E s \in UpstreamStatuses : UpstreamResponse(1, s)
    \/ UpstreamEnd(1)
    \/ UpstreamError(1, "ECONNRESET")

----------------------------------------------------------------------------
(* Calls of the exported pure functions *)

RouterInit ==
    /\ boot = Started
    /\ server = "listening"
    /\ reqs = [r \in Reqs |-> IdleRequest]
    /\ tierModels \in TierMaps
    /\ prompt \in Prompts
    /\ rpc = "init"
    /\ scores = NoScores
    /\ decision = NoDecision

CallScoreDimensions ==
    /\ rpc = "init"
    /\ scores' = scoreDimensions(prompt)
    /\ rpc' = "scored"
    /\ UNCHANGED <<bvars, pvars, tierModels, prompt, decision>>

CallRoute ==
    /\ rpc = "init"
    /\ decision' = route(prompt, tierModels)
    /\ rpc' = "routed"
    /\ UNCHANGED <<bvars, pvars, tierModels, prompt, scores>>

RouterNext == CallScoreDimensions \/ CallRoute

(* Calls of estimateSavings: with models of the cost table, a model that   *)
(* is not in it and no model, and token counts that include none.         *)
SavingsModels == DOMAIN MODEL_COSTS \cup {"openai/o1", Undefined}

TokenCounts == {0, 500, 1000}

SavingsInit ==
    /\ boot = Started
    /\ server = "listening"
    /\ reqs = [r \in Reqs |-> IdleRequest]
    /\ tierModels = DEFAULT_TIER_MODELS
    /\ prompt = EmptyPrompt
    /\ rpc = "init"
    /\ scores = NoScores
    /\ decision = NoDecision

CallEstimateSavings(routedModel, baselineModel, inputTokens, outputTokens) ==
    /\ rpc = "init"
    /\ decision' = [routed |-> routedModel, baseline |-> baselineModel,
                    inputTokens |-> inputTokens, outputTokens |-> outputTokens,
                    savings |-> estimateSavings(routedModel, baselineModel,
                                                inputTokens, outputTokens)]
    /\ rpc' = "saved"
    /\ UNCHANGED <<bvars, pvars, tierModels, prompt, scores>>

SavingsNext ==
    \E routedModel \in SavingsModels, baselineModel \in SavingsModels,
       inputTokens \in TokenCounts, outputTokens \in TokenCounts :
        CallEstimateSavings(routedModel, baselineModel, inputTokens, outputTokens)

vars == <<boot, server, reqs, tierModels, prompt, rpc, scores, decision>>

Spec == Init /\ [][Next]_vars

SpecRequest == Init /\ [][RequestNext]_vars

SpecRouter == RouterInit /\ [][RouterNext]_vars

SpecStart == StartInit /\ [][StartNext]_vars

(* The start of the server when every event that is due is delivered: the *)
(* call is made, the bind succeeds or fails, and the occupant of the port *)
(* answers the probe, refuses it or holds it open.                        *)
SpecStartFair ==
    /\ StartInit
    /\ [][StartNext]_vars
    /\ WF_vars(\E options \in StartOptions : CallStartProxy(options))
    /\ WF_vars(Listening \/ \E code \in {"EADDRINUSE", "EACCES"} : ServerError(code))
    /\ WF_vars((\E data \in ProbeAnswers : ProbeEnd(data)) \/ ProbeError \/ ProbeStall)

SpecSavings == SavingsInit /\ [][SavingsNext]_vars

----------------------------------------------------------------------------
(* Claims about one request (checked under SpecRequest) *)

IsCompletionsPost(in) ==
    in.method = "POST" /\ in.url.path = "/v1/chat/completions"

ParsesAsJson(b) == b.fmt \in {"compact", "spaced"}

Sentinels == {"auto", "litellm/auto", "litellm-clawrouter/auto"}

(* The handler of the request is over: it forwarded, answered or threw. *)
Handled(q) == q.st \notin {"idle", "recv"}

(* The tier route() gives the content of the last message of a payload. *)
LastContentTier(v, map) ==
    LET last == v.messages.items[Len(v.messages.items)]
        text == IF last.content.kind = "string"
                THEN last.content.text
                ELSE [last.content.text EXCEPT !.marks = @ \cup {"{json}"}]
    IN route(text, map).tier

C2_PassThroughBytes ==
    \A r \in Reqs :
        LET q == reqs[r]
        IN (/\ IsCompletionsPost(q.in)
            /\ ParsesAsJson(q.in.body)
            /\ q.in.body.val.kind = "object"
            /\ q.in.body.val.model \notin Sentinels \cup {Undefined}
            /\ q.fwd.sent) =>
               q.fwd.body = q.in.body

(* C3: a completions POST whose body is no JSON is answered 500 with      *)
(* {error: message}, and no upstream request is made for it.              *)
C3_ParseError500 ==
    \A r \in Reqs :
        LET q == reqs[r]
        IN (/\ IsCompletionsPost(q.in)
            /\ ~ParsesAsJson(q.in.body)
            /\ Handled(q)) =>
               /\ q.resp.status = 500
               /\ DOMAIN q.resp.body = {"error"}
               /\ ~q.fwd.sent

----------------------------------------------------------------------------
(* Claims about concurrent requests (checked under Spec) *)

(* C5: every request whose path is /health is answered by the proxy with  *)
(* 200 and {status: 'ok', version}, and causes no upstream request.       *)
C5_HealthLocal ==
    \A r \in Reqs :
        LET q == reqs[r]
        IN (q.st # "idle" /\ q.in.url.path = "/health") =>
               /\ q.st = "done"
               /\ q.resp.status = 200
               /\ q.resp.body = [status |-> "ok", version |-> "1.0.0"]
               /\ ~q.fwd.sent

(* C6: when the upstream connection of a request fails, its client gets   *)
(* 502 with error and details, and the server goes on serving.            *)
C6_UpstreamFailure502 ==
    \A r \in Reqs :
        reqs[r].uperr =>
            /\ reqs[r].resp.status = 502
            /\ DOMAIN reqs[r].resp.body = {"error", "details"}
            /\ server = "listening"

----------------------------------------------------------------------------
(* Claims about route and scoreDimensions (checked under SpecRouter) *)

(* The number of reasoning rules a prompt matches, from its units. *)
ReasoningRulesHit(p) ==
    Cardinality({i \in 1..5 : PATTERNS.reasoning[i] \cap p.marks # {}})

(* C7: whenever at least two of the five reasoning rules match, route     *)
(* returns tier REASONING, the map's REASONING model, confidence exactly  *)
(* 0.97 and method 'rules', with no weightedScore field, whatever the     *)
(* other scores are.                                                      *)
C7_ReasoningOverride ==
    (rpc = "routed" /\ ReasoningRulesHit(prompt) >= 2) =>
        /\ decision.tier = "REASONING"
        /\ decision.model = Lookup(tierModels, "REASONING")
        /\ decision.confidence = [kind |-> "fixed", val |-> 97]
        /\ decision.method = "rules"
        /\ "weightedScore" \notin DOMAIN decision

(* A long prompt (more than 500 tokens) with a strong technical signal   *)
(* and two reasoning rules matched has been routed.                       *)
C7_Witness ==
    /\ rpc = "routed"
    /\ ReasoningRulesHit(prompt) >= 2
    /\ SplitLength(prompt) > 500
    /\ HasStrongCode(decision.scores)

ProveSqrt2 == [marks |-> {"prove", "sqrt(2)"}, pad |-> 2, q |-> 0]

ProveThisTheorem == [marks |-> {"prove", "theorem"}, pad |-> 1, q |-> 0]

(* C9: the README's example: with the default tier models,               *)
(* route("Prove sqrt(2) is irrational") returns tier REASONING, model    *)
(* deepseek/deepseek-reasoner, confidence 0.97 and method 'rules', and   *)
(* "Prove this theorem" is routed to deepseek-reasoner.                  *)
C9_ReadmeExample ==
    (rpc = "routed" /\ tierModels = DEFAULT_TIER_MODELS) =>
        /\ prompt = ProveSqrt2 =>
              /\ decision.tier = "REASONING"
              /\ decision.model = "deepseek/deepseek-reasoner"
              /\ decision.confidence = [kind |-> "fixed", val |-> 97]
              /\ decision.method = "rules"
        /\ prompt = ProveThisTheorem =>
              decision.model = "deepseek/deepseek-reasoner"

DimensionKeys ==
    {"reasoning", "code", "simple", "multiStep", "technical", "tokenCount",
     "creative", "questionComplexity", "constraints", "imperative",
     "outputFormat", "domain", "reference", "negation"}

(* C10: for every prompt, the empty one included, scoreDimensions         *)
(* returns exactly the 14 dimension keys, each value in [0,1]; a pattern  *)
(* dimension is matchedRules/totalRules and questionComplexity is         *)
(* min(q/3, 1) for q question marks.                                      *)
C10_ScoresTotal ==
    rpc = "scored" =>
        /\ DOMAIN scores = DimensionKeys
        /\ Cardinality(DOMAIN scores) = 14
        /\ \A d \in DOMAIN scores : 0 <= scores[d] /\ scores[d] <= Scale
        /\ \A d \in DimensionKeys \ {"tokenCount", "questionComplexity"} :
               scores[d] * Len(PATTERNS[d]) =
                   Cardinality({i \in DOMAIN PATTERNS[d] :
                                   PATTERNS[d][i] \cap prompt.marks # {}}) * Scale
        /\ 3 * scores.questionComplexity =
               (IF prompt.q < 3 THEN prompt.q ELSE 3) * Scale

(* The empty prompt has been scored, and so has a prompt with more than   *)
(* three question marks and the token score at its maximum.               *)
C10_Witness ==
    /\ rpc = "scored"
    /\ prompt.q > 3
    /\ SplitLength(prompt) = 500
    /\ scores.tokenCount = Scale
    /\ scores.reasoning > 0

C10_WitnessEmpty ==
    /\ rpc = "scored"
    /\ prompt = [marks |-> {}, pad |-> 0, q |-> 0]

(* C11: the 14 weights sum to 1.0 and every scored dimension has a        *)
(* weight, so the weighted sum of the scores lies in [0,1] for every      *)
(* prompt, and decision.weightedScore, when present, is that sum.         *)
C11_WeightedSumBounded ==
    rpc = "routed" =>
        LET s == decision.scores
            total == SumOver(DOMAIN s, [d \in DOMAIN s |-> s[d] * WEIGHTS[d]])
        IN /\ Cardinality(DOMAIN WEIGHTS) = 14
           /\ SumOver(DOMAIN WEIGHTS, WEIGHTS) = 100
           /\ DOMAIN s = DOMAIN WEIGHTS
           /\ 0 <= total /\ total <= 100 * Scale
           /\ "weightedScore" \in DOMAIN decision =>
                  decision.weightedScore = total

(* A long prompt with code and technical signals has been routed by the   *)
(* weighted method with a weighted sum above 0.20.                        *)
C11_Witness ==
    /\ rpc = "routed"
    /\ "weightedScore" \in DOMAIN decision
    /\ decision.weightedScore > 20 * Scale
    /\ decision.scores.tokenCount > Scale \div 2
    /\ decision.scores.code > 0

(* C12: with n the number of whitespace-delimited tokens, the tokenCount  *)
(* score is 0.2 for n < 50, 0.9 for n > 500 and 0.5 + (n - 50)/900 in     *)
(* between; a very short prompt scores below 0.3.                         *)
C12_TokenScore ==
    rpc = "scored" =>
        LET n == SplitLength(prompt)
        IN /\ n < 50 => 5 * scores.tokenCount = Scale
           /\ n > 500 => 10 * scores.tokenCount = 9 * Scale
           /\ (50 <= n /\ n <= 500) =>
                  900 * scores.tokenCount = 450 * Scale + (n - 50) * Scale
           /\ n <= 3 => 10 * scores.tokenCount < 3 * Scale

(* A prompt of exactly 50 tokens has been scored 0.5. *)
C12_Witness ==
    /\ rpc = "scored"
    /\ SplitLength(prompt) = 50
    /\ 2 * scores.tokenCount = Scale

(* C13: for every prompt and every tier map in effect, decision.model is  *)
(* the model the map assigns to decision.tier and is a defined            *)
(* identifier.                                                            *)
C13_ModelResolvable ==
    rpc = "routed" =>
        /\ decision.tier \in DOMAIN tierModels
        /\ decision.model = tierModels[decision.tier]
        /\ decision.model # Undefined

----------------------------------------------------------------------------
(* Claims about the start of the server (checked under SpecStart) *)

(* C14: when the bind fails with EADDRINUSE, startProxy issues one health *)
(* probe; it resolves with a handle marked reused, whose close is a       *)
(* no-op, exactly when the probe reported status 'ok', and rejects with   *)
(* an error naming the port on every other answer and on a connection     *)
(* error; it never adopts without a healthy probe and never binds a       *)
(* second listener.                                                       *)
C14_PortConflictProtocol ==
    /\ boot.listens <= 1
    /\ boot.probes <= 1
    /\ boot.probes = 1 <=> boot.bindError = "EADDRINUSE"
    /\ (boot.phase = "resolved" /\ boot.handle.reused) =>
           /\ boot.probe = "{status:ok}"
           /\ boot.handle.close = "noop"
           /\ boot.handle.port = boot.opts.port
           /\ server = "down"
    /\ (boot.bindError = "EADDRINUSE" /\ boot.probe # "none") =>
           IF boot.probe = "{status:ok}"
           THEN boot.phase = "resolved" /\ boot.handle.reused
           ELSE /\ boot.phase = "rejected"
                /\ boot.error.port = boot.opts.port
                /\ boot.handle = NoHandle
    /\ boot.bindError = "EADDRINUSE" => server = "down"

(* After a port conflict the occupant answered {status: 'ok'} and the     *)
(* call resolved with a reused handle.                                    *)
C14_Witness ==
    /\ boot.bindError = "EADDRINUSE"
    /\ boot.probe = "{status:ok}"
    /\ boot.phase = "resolved"
    /\ boot.handle.reused

(* C15: startProxy called without a base URL or without an API key fails  *)
(* with an error before any bind: no port is bound, onReady is never      *)
(* invoked and no request is ever handled.                                *)
C15_ConfigurationError ==
    (/\ boot.phase # "new"
     /\ Falsy(boot.opts.litellmBaseUrl) \/ Falsy(boot.opts.litellmApiKey)) =>
        /\ boot.phase = "rejected"
        /\ boot.error.message \in
               {"litellmBaseUrl is required", "litellmApiKey is required"}
        /\ boot.listens = 0
        /\ boot.ready = 0
        /\ server = "down"
        /\ \A r \in Reqs : reqs[r].st = "idle"

(* A call with a base URL and an empty API key has been rejected. *)
C15_Witness ==
    /\ boot.phase = "rejected"
    /\ boot.opts.litellmBaseUrl = BaseUrl
    /\ boot.opts.litellmApiKey = ""
    /\ boot.error.message = "litellmApiKey is required"

----------------------------------------------------------------------------
(* Claims about forwarding, the hooks and concurrent requests *)

(* The body of the request carries an auto sentinel and a non-empty list  *)
(* of messages: what auto-routing rewrites.                               *)
AutoRewritable(in) ==
    /\ in.method = "POST"
    /\ ParsesAsJson(in.body)
    /\ in.body.val.kind = "object"
    /\ in.body.val.model \in Sentinels
    /\ in.body.val.messages.kind = "list"
    /\ Len(in.body.val.messages.items) > 0

(* C16: a forwarded request carries the client's headers unchanged but    *)
(* for host, replaced by the upstream host, and authorization, always the *)
(* configured key; content-length is the client's value unless the body   *)
(* was rewritten by auto-routing.                                         *)
C16_HeadersPreserved ==
    \A r \in Reqs :
        LET q == reqs[r]
        IN q.fwd.sent =>
               /\ DOMAIN q.fwd.headers = DOMAIN q.in.headers
               /\ q.fwd.headers.accept = q.in.headers.accept
               /\ q.fwd.headers.host = "litellm:4000"
               /\ q.fwd.headers.authorization = "Bearer sk-upstream"
               /\ ~AutoRewritable(q.in) =>
                      q.fwd.headers.contentLength = q.in.headers.contentLength

(* C17: a request whose method is not POST or whose path is not the       *)
(* completions path (and not the health path) is never parsed or          *)
(* classified: it is forwarded with its body as received, onRouted is not *)
(* invoked, and the response is the upstream's.                           *)
C17_PassThroughVerbatim ==
    \A r \in Reqs :
        LET q == reqs[r]
        IN (/\ Handled(q)
            /\ q.in.url.path # "/health"
            /\ q.in.method # "POST" \/ q.in.url.path # "/v1/chat/completions") =>
               /\ q.fwd.sent
               /\ q.fwd.method = q.in.method
               /\ q.fwd.url = q.in.url
               /\ q.fwd.body = q.in.body
               /\ q.log = <<>>
               /\ (q.resp.heads > 0 /\ ~q.uperr) =>
                      /\ q.resp.status \in UpstreamStatuses
                      /\ q.resp.body = [upstream |-> "stream"]

(* The calls of onRouted a request has caused, in their order *)
OnRoutedCalls(q) == SelectSeq(q.log, LAMBDA e : e.ev = "onRouted")

(* Every call named a comes before every call named b. *)
CalledBefore(log, a, b) ==
    \A i, j \in DOMAIN log : (log[i].ev = a /\ log[j].ev = b) => i < j

(* The content of the last message of a payload, as the classified text, *)
(* and its length in characters.                                         *)
LastContentText(v) ==
    LET last == v.messages.items[Len(v.messages.items)]
    IN IF last.content.kind = "string"
       THEN last.content.text
       ELSE [last.content.text EXCEPT !.marks = @ \cup {"{json}"}]

LastContentChars(v) ==
    LET last == v.messages.items[Len(v.messages.items)]
    IN IF last.content.kind = "string"
       THEN PromptLen(last.content.text, UnitChars)
       ELSE 27 + PromptLen(last.content.text, UnitChars)

(* C18: for an auto-routed request onRouted is invoked exactly once,      *)
(* before the rewritten body is sent upstream, with the client's          *)
(* sentinel, the routed model, the tier, the confidence, the estimated    *)
(* savings and the first 100 characters of the classified prompt; it is   *)
(* never invoked for a request that is not auto-routed.                   *)
C18_OnRoutedOnce ==
    \A r \in Reqs :
        LET q == reqs[r]
            v == q.in.body.val
            calls == OnRoutedCalls(q)
            rewritten == /\ q.fwd.sent
                         /\ AutoRewritable(q.in)
                         /\ q.fwd.body.val.model # v.model
        IN /\ Len(calls) <= 1
           /\ rewritten => q.onRouted \in {"absent", "returns"}
           /\ (rewritten /\ q.onRouted = "returns") =>
                  Len(calls) = 1 /\ CalledBefore(q.log, "onRouted", "forward")
           /\ ~AutoRewritable(q.in) => Len(calls) = 0
           /\ Len(calls) = 1 =>
                  LET a == calls[1].arg
                      d == route(LastContentText(v), tierModels)
                      n == LastContentChars(v)
                  IN /\ a.originalModel = v.model
                     /\ a.routedModel = Lookup(tierModels, d.tier)
                     /\ a.tier = d.tier
                     /\ a.confidence = d.confidence
                     /\ a.savings = DefaultSavings(a.routedModel)
                     /\ a.promptPreview.text = LastContentText(v)
                     /\ a.promptPreview.chars = (IF n < 100 THEN n ELSE 100)

(* An auto request with a prompt of more than 100 characters has been     *)
(* forwarded after one call of onRouted with a preview of 100 characters. *)
C18_Witness ==
    \E r \in Reqs :
        /\ reqs[r].fwd.sent
        /\ reqs[r].onRouted = "returns"
        /\ Len(OnRoutedCalls(reqs[r])) = 1
        /\ OnRoutedCalls(reqs[r])[1].arg.promptPreview.chars = 100
        /\ LastContentChars(reqs[r].in.body.val) > 100

(* What the 'end' handler does with the request's own body when the hooks *)
(* are absent or return.                                                  *)
OwnOutcome(q, map, routedHook) ==
    OnRequestEnd([IdleRequest EXCEPT !.st = "recv", !.in = q.in,
                                     !.got = Len(Chunks(q.in.body)),
                                     !.buf = Chunks(q.in.body)],
                 map, routedHook, "absent", "warn").req

(* C19: the request forwarded and the response delivered are the same     *)
(* whatever the hooks do, and a throwing hook never stops the server:     *)
(* every handled completions POST was forwarded or answered as it is      *)
(* without hooks, and a call of onReady is followed by the resolution.    *)
C19_HookIndependence ==
    /\ boot.ready > 0 => boot.phase = "resolved" /\ boot.handle # NoHandle
    /\ \A r \in Reqs :
           LET q == reqs[r]
           IN (/\ Handled(q)
               /\ q.in.method = "POST"
               /\ IncludesCompletions(q.in.url)) =>
                  /\ q.st # "hung"
                  /\ q.fwd = OwnOutcome(q, tierModels, "absent").fwd
                  /\ q.resp.status = 500 =>
                         q.resp = OwnOutcome(q, tierModels, "absent").resp

(* C20: under every interleaving, the text buffered for a request is made *)
(* of its own chunks only, and the body forwarded for it and the decision *)
(* passed to onRouted are those its own bytes and the tier map give.      *)
C20_RequestsIndependent ==
    \A r \in Reqs :
        LET q == reqs[r]
        IN /\ q.got <= Len(Chunks(q.in.body))
           /\ q.buf = SubSeq(Chunks(q.in.body), 1, q.got)
           /\ (q.fwd.sent /\ q.in.method = "POST"
                 /\ IncludesCompletions(q.in.url)) =>
                  q.fwd = OwnOutcome(q, tierModels, "absent").fwd
           /\ OnRoutedCalls(q) # <<>> =>
                  OnRoutedCalls(q) =
                      OnRoutedCalls(OwnOutcome(q, tierModels, "returns"))

(* A later request with another body has been rewritten and forwarded     *)
(* while an earlier one has received only the first chunk of its body.    *)
C20_Witness ==
    \E r1, r2 \in Reqs :
        /\ r1 < r2
        /\ reqs[r1].st = "recv"
        /\ reqs[r1].got = 1
        /\ reqs[r2].fwd.sent
        /\ reqs[r2].in.body # reqs[r1].in.body
        /\ reqs[r2].fwd.body.val.model \notin Sentinels
        /\ reqs[r2].in.body.val.model \in Sentinels

----------------------------------------------------------------------------
(* Claims about a silent upstream, close(), the savings and the heads *)

(* C21: while a request stays pending on an upstream that has not        *)
(* answered it, the server goes on accepting and answering the other      *)
(* requests.                                                              *)
C21_StillAccepting ==
    \A r \in Reqs :
        (reqs[r].st = "up" /\ ~reqs[r].uperr) => server = "listening"

(* C22: close() on a handle of a bound server stops the server accepting  *)
(* requests and resolves only once the listener is released and no        *)
(* connection is left; the requests in flight at the call are not aborted *)
(* and have been answered by then.  close() on a reused handle resolves   *)
(* at once and touches no server.                                         *)
C22_CloseProtocol ==
    /\ server \in {"closing", "closed"} =>
           /\ boot.closed # "no"
           /\ ~boot.handle.reused
           /\ Accepted(reqs) = boot.acceptedAtClose
    /\ (boot.closed = "resolved" /\ ~boot.handle.reused) =>
           /\ server = "closed"
           /\ \A r \in Reqs :
                  reqs[r].st # "idle" =>
                      reqs[r].st = "done" /\ reqs[r].resp.heads = 1
    /\ (boot.closed = "resolved" /\ boot.handle.reused) =>
           server = "down" /\ boot.phase = "resolved"

(* close() was called while a forwarded request was in flight; the        *)
(* request got its upstream's response and close() resolved after it.     *)
C22_Witness ==
    /\ boot.closed = "resolved"
    /\ server = "closed"
    /\ boot.inFlightAtClose = 1
    /\ reqs[1].fwd.sent
    /\ reqs[1].resp.body = [upstream |-> "stream"]

(* The rates of a model in cents per million tokens, from the cost table *)
(* or the fallback.                                                      *)
InputRate(m) == IF m \in DOMAIN MODEL_COSTS THEN MODEL_COSTS[m].input ELSE 100

OutputRate(m) == IF m \in DOMAIN MODEL_COSTS THEN MODEL_COSTS[m].output ELSE 500

(* C23: estimateSavings(routed, baseline, in, out) is                     *)
(* 1 - cost(routed)/cost(baseline) with cost(m) = in * inputRate(m) +     *)
(* out * outputRate(m) and the fallback rates for an unknown model; it is *)
(* 0 when the baseline costs nothing, is not clamped, is 0 for the same   *)
(* model, and exceeds 0.9 for the cheapest model against the dearest.     *)
C23_Savings ==
    rpc = "saved" =>
        LET s == decision.savings
            costR == decision.inputTokens * InputRate(decision.routed)
                     + decision.outputTokens * OutputRate(decision.routed)
            costB == decision.inputTokens * InputRate(decision.baseline)
                     + decision.outputTokens * OutputRate(decision.baseline)
        IN /\ s.den > 0
           /\ costB > 0 => s.den = costB /\ s.num = costB - costR
           /\ costB = 0 => s.num = 0
           /\ costR > costB => s.num < 0
           /\ decision.routed = decision.baseline => s.num = 0
           /\ (/\ decision.routed \in
                      {"gemini/gemini-2.0-flash", "deepseek/deepseek-chat"}
               /\ decision.baseline = "anthropic/claude-opus-4"
               /\ costB > 0) =>
                  10 * s.num > 9 * s.den

(* The saving of a dearer routed model has been computed: it is negative. *)
C23_Witness ==
    /\ rpc = "saved"
    /\ decision.routed = "anthropic/claude-opus-4"
    /\ decision.baseline = "openai/o1"
    /\ decision.inputTokens = 1000
    /\ decision.savings.num < 0

(* C24: the proxy answers 500 only for a body that is no JSON: every      *)
(* completions POST whose body parses, whatever its shape, is forwarded   *)
(* upstream (here: when no hook has thrown).                              *)
C24_Only500OnInvalidJson ==
    \A r \in Reqs :
        LET q == reqs[r]
        IN (/\ IsCompletionsPost(q.in)
            /\ ParsesAsJson(q.in.body)
            /\ Handled(q)
            /\ q.onRouted # "throws"
            /\ q.st # "hung") =>
               /\ q.fwd.sent
               /\ q.resp.status # 500

(* C25: the proxy writes a status line and headers to a client at most    *)
(* once: the 'error' callback of the upstream request, which writes the   *)
(* 502 head, never runs for a response that carries the upstream's head.  *)
C25_HeadWrittenOnce ==
    \A r \in Reqs :
        /\ reqs[r].resp.heads <= 1
        /\ ~(reqs[r].uperr /\ reqs[r].resp.body = [upstream |-> "stream"])

(* C27: the tokenCount score never decreases with the token count: no     *)
(* shorter prompt scores higher than the prompt that was scored.          *)
C27_TokenScoreMonotonic ==
    rpc = "scored" =>
        \A n \in 1..SplitLength(prompt) : TokenScore(n) <= scores.tokenCount

(* C28: a completions POST with an auto sentinel and an empty or absent   *)
(* messages list is not classified: no onRouted call, no log line, and it *)
(* is forwarded with its model still the client's sentinel.               *)
C28_EmptyMessagesNotClassified ==
    \A r \in Reqs :
        LET q == reqs[r]
            v == q.in.body.val
        IN (/\ IsCompletionsPost(q.in)
            /\ ParsesAsJson(q.in.body)
            /\ v.kind = "object"
            /\ v.model \in Sentinels
            /\ \/ v.messages.kind = "absent"
               \/ v.messages.kind = "list" /\ Len(v.messages.items) = 0
            /\ Handled(q)) =>
               /\ q.fwd.sent
               /\ q.fwd.body.val = v
               /\ q.fwd.body.val.model = v.model
               /\ q.onRouted = "none"
               /\ \A i \in DOMAIN q.log : q.log[i].ev = "forward"
               /\ q.resp.status # 500

(* An auto request with an empty messages list has been forwarded. *)
C28_Witness ==
    \E r \in Reqs :
        /\ reqs[r].fwd.sent
        /\ reqs[r].in.body.val.model = "auto"
        /\ reqs[r].in.body.val.messages = List(<<>>)
        /\ reqs[r].fwd.body.val.model = "auto"

(* C26: a call of startProxy that found its port occupied and probes the  *)
(* occupant eventually settles, resolved or rejected, whatever the        *)
(* occupant does with the probe.                                          *)
C26_ProbeSettles ==
    (boot.phase = "probing") ~> (boot.phase \in {"resolved", "rejected"})

====
